---- MODULE Spec2Model ----
(***************************************************************************)
(* Model of the database migration scripts of the portfolio repository:    *)
(*   migrate_sqlite_to_neon.py  SQLiteToNeonMigrator (SQLite -> PostgreSQL, *)
(*                              one target transaction, per-row inserts)    *)
(*   migrate_data_only.py       batched data copy into MySQL (autocommit)   *)
(*   simple_migrate.py          batched table+data copy into MySQL          *)
(* The source database is read-only input; the target server is modelled    *)
(* by the statements the scripts send to it.                               *)
(***************************************************************************)
EXTENDS Integers, Sequences, FiniteSets, TLC

VARIABLES
    script,         \* which script runs: "neon" | "data_only" | "simple"
    src,            \* the SQLite database (catalog order, schema, rows, indexes)
    run,            \* number of the current run of the script (1..MaxRuns)
    pc,             \* position of the running script
    sqlite_conn,    \* self.sqlite_conn: "none" | "open" | "closed"
    neon_conn,      \* self.neon_conn / mysql_conn: "none" | "open" | "closed"
    tables,         \* local `tables`
    ti,             \* index of the table of the for loop (1-based)
    schema,         \* local `schema` of the current table
    rows,           \* local `rows` of the current table
    ri,             \* index of the row of the insert loop
    migrated_count, \* local `migrated_count`
    indexes,        \* local `indexes` of the current table
    ii,             \* index of the index of the create_indexes loop
    sequences,      \* local `sequences` of reset_sequences
    si,             \* index of the sequence of the reset loop
    pgc,            \* target: committed (visible) tables and indexes
    pgw,            \* target: state seen inside the open transaction
    txn,            \* target transaction: "none" | "open" | "aborted"
    seqval,         \* target sequences (not transactional)
    log,            \* log records of the current run
    stmts,          \* statements sent to the target in the current run
    faults,         \* environment faults injected in the current run
    outcome,        \* outcome of each finished run
    pgAtStart,      \* pgc when the current run started
    pgAfterRun,     \* pgc at the end of each finished run
    sqlite_type,    \* argument of convert_sqlite_type_to_postgres
    postgres_type,  \* its result ("" before the call)
    verify_flag,    \* args.verify: "unread" until main tests it, then "given" | "absent"
    exit_status,    \* exit status of the process, -1 while it runs
    live,           \* connections opened by the process and not closed
    v_tables,       \* local `tables` of verify_migration
    vi,             \* index of the table of the loop of verify_migration
    std_in,         \* create_user: the four lines typed at the prompts
    username,       \* create_user: main's local `username` ("" before it is set)
    email,          \* create_user: main's local `email`
    password,       \* create_user: main's local `password`
    sqlite_success, \* create_user: "unset" | "True" | "False"
    mysql_success,  \* create_user: "unset" | "True" | "False"
    django_db,      \* create_user: usernames in auth_user of the Django database
    mysql_db,       \* create_user: auth_user of the MySQL database
    usersAtStart    \* create_user: <<django_db, mysql_db>> when the script started

runVars  == <<tables, ti, schema, rows, ri, migrated_count, indexes, ii, sequences, si>>
connVars == <<sqlite_conn, neon_conn>>
dbVars   == <<pgc, pgw, txn, seqval>>
histVars == <<outcome, pgAtStart, pgAfterRun>>
typeVars == <<sqlite_type, postgres_type>>
mainVars == <<verify_flag, exit_status, v_tables, vi>>
userVars == <<std_in, username, email, password, sqlite_success, mysql_success,
             django_db, mysql_db, usersAtStart>>
vars == <<script, src, run, pc, connVars, runVars, dbVars, log, stmts, faults,
          histVars, typeVars, userVars, mainVars, live>>

-----------------------------------------------------------------------------
(* Bounds *)

MaxRows == 3      \* rows in the whole source database
MaxRuns == 2      \* successive runs of a script against the same databases
MaxFaults == 1    \* environment faults (I/O, server errors) per run
MaxCols == 3      \* columns of a table whose schema is drawn freely

-----------------------------------------------------------------------------
(* Python values of a row: None, str, int, bytes *)

Null == [t |-> "none", s |-> "", n |-> 0]
Str(x) == [t |-> "str", s |-> x, n |-> 0]
Num(i) == [t |-> "int", s |-> "", n |-> i]
Bytes(x) == [t |-> "bytes", s |-> x, n |-> 0]

\* a str with an embedded NUL character, which the PostgreSQL driver refuses
\* to adapt (ValueError raised before anything is sent)
NulStr == Str("n\\x00")

\* Python `val == ''`: only the empty str equals '' (b'' and 0 do not)
EqEmptyStr(val) == val.t = "str" /\ val.s = ""

-----------------------------------------------------------------------------
(* convert_sqlite_type_to_postgres *)

UpperChar(c) ==
    CASE c = "a" -> "A" [] c = "b" -> "B" [] c = "c" -> "C" [] c = "d" -> "D"
      [] c = "e" -> "E" [] c = "f" -> "F" [] c = "g" -> "G" [] c = "h" -> "H"
      [] c = "i" -> "I" [] c = "j" -> "J" [] c = "k" -> "K" [] c = "l" -> "L"
      [] c = "m" -> "M" [] c = "n" -> "N" [] c = "o" -> "O" [] c = "p" -> "P"
      [] c = "q" -> "Q" [] c = "r" -> "R" [] c = "s" -> "S" [] c = "t" -> "T"
      [] c = "u" -> "U" [] c = "v" -> "V" [] c = "w" -> "W" [] c = "x" -> "X"
      [] c = "y" -> "Y" [] c = "z" -> "Z" [] OTHER -> c

RECURSIVE Upper(_)
Upper(s) ==
    IF Len(s) = 0 THEN ""
    ELSE UpperChar(SubSeq(s, 1, 1)) \o Upper(SubSeq(s, 2, Len(s)))

\* Python `sub in s`
Contains(sub, s) ==
    \E i \in 1..(Len(s) - Len(sub) + 1) : SubSeq(s, i, i + Len(sub) - 1) = sub

\* type_mapping, in the insertion order a dict iterates in
type_mapping == <<
    <<"INTEGER", "INTEGER">>,
    <<"TEXT", "TEXT">>,
    <<"REAL", "REAL">>,
    <<"BLOB", "BYTEA">>,
    <<"NUMERIC", "NUMERIC">>,
    <<"BOOLEAN", "BOOLEAN">>,
    <<"DATE", "DATE">>,
    <<"DATETIME", "TIMESTAMP">>,
    <<"TIME", "TIME">>,
    <<"VARCHAR", "VARCHAR(255)">>,
    <<"CHAR", "TEXT">> >>

RECURSIVE FirstMatch(_, _)
FirstMatch(k, t) ==
    IF k > Len(type_mapping) THEN "TEXT"
    ELSE IF Contains(type_mapping[k][1], t) THEN type_mapping[k][2]
    ELSE FirstMatch(k + 1, t)

\* variant: CHAR(n) handled like VARCHAR(n): the declared type is kept
ConvertKeepChar(declared) ==
    LET t == Upper(declared) IN
    IF Contains("VARCHAR", t) THEN t
    ELSE IF Contains("CHAR", t) THEN t
    ELSE FirstMatch(1, t)

convert_sqlite_type_to_postgres(declared) ==
    LET t == Upper(declared) IN
    IF Contains("VARCHAR", t) THEN t
    ELSE IF Contains("CHAR", t) THEN "TEXT"
    ELSE FirstMatch(1, t)

-----------------------------------------------------------------------------
(* The source database.  PRAGMA table_info rows are records
   (cid, name, type, notnull, dflt_value, pk); a dflt_value of None is "".
   PRAGMA index_list rows are tuples (seq, name, unique, origin, partial),
   PRAGMA index_info rows are tuples (seqno, cid, name). *)

Col(cid, name, type, notnull, dflt, pk) ==
    [cid |-> cid, name |-> name, type |-> type, notnull |-> notnull,
     dflt_value |-> dflt, pk |-> pk]

SrcTables == {"users", "site", "tags", "sqlite_sequence"}

TableInfo(t) ==
    CASE t = "users" ->
           << Col(0, "id", "integer", 1, "", 1),
              Col(1, "name", "varchar(150)", 1, "", 0),
              Col(2, "email", "text", 0, "", 0) >>
      [] t = "site" ->
           << Col(0, "hostname", "varchar(255)", 1, "", 1),
              Col(1, "root_page_id", "integer", 0, "", 2),
              Col(2, "site_name", "char(50)", 1, "'main'", 0) >>
      [] t = "tags" ->
           << Col(0, "id", "INTEGER", 0, "", 1),
              Col(1, "expired", "bool", 0, "", 0) >>
      [] t = "sqlite_sequence" ->
           << Col(0, "name", "", 0, "", 0),
              Col(1, "seq", "", 0, "", 0) >>
      [] OTHER -> << >>

IndexList(t) ==
    CASE t = "users" ->
           << <<0, "users_name_idx", 0, "c", 0>>,
              <<1, "users_email_uniq", 1, "c", 0>> >>
      [] t = "site" ->
           << <<0, "sqlite_autoindex_site_1", 1, "pk", 0>> >>
      [] OTHER -> << >>

IndexInfo(i) ==
    CASE i = "users_name_idx" -> << <<0, 1, "name">> >>
      [] i = "users_email_uniq" -> << <<0, 2, "email">> >>
      [] i = "sqlite_autoindex_site_1" ->
           << <<0, 0, "hostname">>, <<1, 1, "root_page_id">> >>
      [] OTHER -> << >>

\* rows a table of the source may hold, in rowid order
RowPool(t) ==
    CASE t = "users" ->
           << <<Num(1), Str("a"), Str("")>>,
              <<Num(2), Str("b"), Str("c@x.com")>>,
              <<Num(3), Str(""), Str("d")>>,
              <<Num(4), Str("e"), Bytes("")>> >>
      [] t = "site" ->
           << <<Str("h"), Num(1), Str("s")>>,
              <<Str(""), Num(2), Str("t")>>,
              <<Str("g"), Num(3), Str("")>> >>
      [] t = "tags" ->
           << <<Num(1), Num(0)>>,
              <<Num(2), NulStr>>,
              <<Num(3), Null>> >>
      [] t = "sqlite_sequence" ->
           << <<Str("users"), Num(4)>> >>
      [] OTHER -> << >>

\* the rows of pool p whose positions are in S, in pool order
RECURSIVE Pick(_, _, _)
Pick(p, S, k) ==
    IF k > Len(p) THEN << >>
    ELSE (IF k \in S THEN <<p[k]>> ELSE << >>) \o Pick(p, S, k + 1)

\* catalog orders of sqlite_master
Catalogs ==
    { << >>,
      <<"users", "site">>,
      <<"tags", "sqlite_sequence", "users">> }

InCatalog(c, t) == \E k \in 1..Len(c) : c[k] = t

\* the system table holds its one row whenever it exists
RowChoices(t) ==
    IF t = "sqlite_sequence" THEN { {1} }
    ELSE SUBSET (1..Len(RowPool(t)))

UserRowCount(c, sel) ==
    LET F[k \in 0..Len(c)] ==
          IF k = 0 THEN 0
          ELSE F[k - 1] + (IF c[k] = "sqlite_sequence" THEN 0
                           ELSE Cardinality(sel[c[k]]))
    IN F[Len(c)]

\* which rows of the pools a database with catalog c holds
Choices(c, t) == IF InCatalog(c, t) THEN RowChoices(t) ELSE { {} }

Selections(c) ==
    { f \in { [users |-> u, site |-> s, tags |-> g, sqlite_sequence |-> q] :
                u \in Choices(c, "users"), s \in Choices(c, "site"),
                g \in Choices(c, "tags"), q \in Choices(c, "sqlite_sequence") } :
        UserRowCount(c, f) <= MaxRows }

MkSource(c, sel) ==
    [catalog |-> c,
     rows |-> [t \in SrcTables |-> Pick(RowPool(t), sel[t], 1)]]

SourceDBs ==
    UNION { { MkSource(c, sel) : sel \in Selections(c) } : c \in Catalogs }

-----------------------------------------------------------------------------
(* The target server: tables, indexes (one name space per database) and
   sequences.  A table is a record; a column definition keeps what the DDL
   said about it. *)

TableU == SrcTables \cup {"legacy", "audit"}
IndexU == {"users_name_idx", "users_email_uniq", "sqlite_autoindex_site_1"}
SeqU == { <<"legacy", "id">>, <<"audit", "id">> }

ColDef(name, type, not_null, default) ==
    [name |-> name, type |-> type, not_null |-> not_null, default |-> default]

NoTable == [exists |-> FALSE, cols |-> << >>, pk |-> << >>, rows |-> << >>,
            serial |-> {}]
NoIndex == [exists |-> FALSE, table |-> "", cols |-> << >>]

MkTable(cols, pk, rws, serial) ==
    [exists |-> TRUE, cols |-> cols, pk |-> pk, rows |-> rws, serial |-> serial]

EmptyTarget ==
    [tables |-> [t \in TableU |-> NoTable], indexes |-> [i \in IndexU |-> NoIndex]]

SerialTable(rws) ==
    MkTable(<< ColDef("id", "INTEGER", TRUE, "nextval"),
               ColDef("note", "TEXT", FALSE, "") >>, <<"id">>, rws, {"id"})

\* a target that other applications already use: two tables with serial keys
LegacyTarget ==
    [EmptyTarget EXCEPT
       !.tables["legacy"] = SerialTable(<< <<Num(0), Str("zero")>> >>),
       !.tables["audit"] = SerialTable(<< <<Num(2), Str("two")>> >>)]

\* a target left by an older layout of the application
StaleTarget ==
    [EmptyTarget EXCEPT
       !.tables["users"] =
           MkTable(<< ColDef("id", "INTEGER", TRUE, ""),
                      ColDef("name", "VARCHAR(150)", TRUE, ""),
                      ColDef("email", "TEXT", FALSE, "") >>, <<"id">>,
                   << <<Num(9), Str("z"), Null>> >>, {}),
       !.tables["site"] =
           MkTable(<< ColDef("hostname", "VARCHAR(255)", FALSE, ""),
                      ColDef("root_page_id", "INTEGER", FALSE, ""),
                      ColDef("site_name", "TEXT", FALSE, "") >>,
                   <<"hostname", "root_page_id">>, << >>, {}),
       !.tables["audit"] = SerialTable(<< <<Num(2), Str("two")>> >>),
       !.indexes["users_name_idx"] =
           [exists |-> TRUE, table |-> "site", cols |-> <<"site_name">>]]

TargetDBs == {EmptyTarget, LegacyTarget, StaleTarget}

InSeq(x, q) == \E k \in 1..Len(q) : q[k] = x

ColPos(tbl, c) == CHOOSE k \in 1..Len(tbl.cols) : tbl.cols[k].name = c

\* a PRIMARY KEY column is NOT NULL whatever its column definition says
AcceptsNull(tbl, k) ==
    ~tbl.cols[k].not_null /\ ~InSeq(tbl.cols[k].name, tbl.pk)

\* the longest str a column of this type takes; the model holds no str of
\* more than 7 characters
LengthLimit(type) ==
    CASE type = "VARCHAR(0)" -> 0
      [] type = "VARCHAR(1)" -> 1
      [] OTHER -> 7

KeyOf(tbl, row) == [k \in 1..Len(tbl.pk) |-> row[ColPos(tbl, tbl.pk[k])]]

\* the server's answer to INSERT INTO t VALUES params
InsertVerdict(db, t, params) ==
    LET tbl == db.tables[t] IN
    IF ~tbl.exists THEN "no_table"
    ELSE IF Len(params) # Len(tbl.cols) THEN "arity"
    ELSE IF \E k \in 1..Len(params) : params[k] = Null /\ ~AcceptsNull(tbl, k)
      THEN "not_null"
    ELSE IF \E k \in 1..Len(params) :
              params[k].t = "str" /\ Len(params[k].s) > LengthLimit(tbl.cols[k].type)
      THEN "too_long"
    ELSE IF /\ Len(tbl.pk) > 0
            /\ \E j \in 1..Len(tbl.rows) : KeyOf(tbl, tbl.rows[j]) = KeyOf(tbl, params)
      THEN "duplicate"
    ELSE "ok"

Insert(db, t, params) ==
    [db EXCEPT !.tables[t].rows = Append(@, params)]

\* DROP TABLE IF EXISTS t CASCADE; CREATE TABLE t (...)
DropAndCreate(db, t, cols, pk) ==
    [tables |-> [db.tables EXCEPT ![t] = MkTable(cols, pk, << >>, {})],
     indexes |-> [i \in IndexU |->
                    IF db.indexes[i].exists /\ db.indexes[i].table = t
                      THEN NoIndex ELSE db.indexes[i]]]

\* CREATE TABLE IF NOT EXISTS t (...)
CreateIfNotExists(db, t, cols, pk) ==
    IF db.tables[t].exists THEN db
    ELSE [db EXCEPT !.tables[t] = MkTable(cols, pk, << >>, {})]

\* CREATE INDEX IF NOT EXISTS name ON t (cols): a no-op when the name is taken
CreateIndexIfNotExists(db, name, t, cols) ==
    IF db.indexes[name].exists THEN db
    ELSE [db EXCEPT !.indexes[name] = [exists |-> TRUE, table |-> t, cols |-> cols]]

\* the (table, column) pairs whose default is nextval(...)
SerialColumns(db) ==
    { tc \in SeqU : db.tables[tc[1]].exists /\ tc[2] \in db.tables[tc[1]].serial }

\* COALESCE(MAX(column), 1) FROM table
CoalesceMax(db, tc) ==
    LET tbl == db.tables[tc[1]]
        k == ColPos(tbl, tc[2])
        vals == { tbl.rows[j][k].n : j \in { i \in 1..Len(tbl.rows) :
                                              tbl.rows[i][k].t = "int" } }
    IN IF vals = {} THEN 1 ELSE CHOOSE m \in vals : \A v \in vals : v <= m

\* setval refuses a value below the sequence's minimum, 1
SetvalAccepts(v) == v >= 1

\* every order the rows of a query without ORDER BY may come in
Orderings(S) ==
    { q \in [1..Cardinality(S) -> S] : \A a, b \in DOMAIN q : a # b => q[a] # q[b] }

-----------------------------------------------------------------------------
(* SQLiteToNeonMigrator: pure parts *)

StartsWith(prefix, s) ==
    Len(s) >= Len(prefix) /\ SubSeq(s, 1, Len(prefix)) = prefix

RECURSIVE Filter(_, _, _)
Filter(q, Keep(_), k) ==
    IF k > Len(q) THEN << >>
    ELSE (IF Keep(q[k]) THEN <<q[k]>> ELSE << >>) \o Filter(q, Keep, k + 1)

\* get_sqlite_tables: the catalog without the tables under the prefix 'sqlite_'
UserTable(t) == ~StartsWith("sqlite_", t)

\* variant: the whole catalog, internal tables included
CatalogUnfiltered(db) == db.catalog

get_sqlite_tables(db) == Filter(db.catalog, UserTable, 1)

\* get_table_names of the MySQL scripts: the whole catalog
get_table_names(db) == db.catalog

nullable_fields ==
    {"last_name", "first_name", "date_joined", "site_name", "hostname",
     "root_page_id", "is_default_site", "seo_title", "search_description",
     "go_live_at", "expire_at", "expired"}

\* variant: the exemption list is not consulted
NotNullIgnoringExemptions(column) == column.notnull # 0

\* whether the column definition says NOT NULL
NotNullClause(column) ==
    column.notnull # 0 /\ column.name \notin nullable_fields

ColumnDef(column) ==
    ColDef(column.name, convert_sqlite_type_to_postgres(column.type),
           NotNullClause(column), column.dflt_value)

ColumnDefs(sch) == [k \in 1..Len(sch) |-> ColumnDef(sch[k])]

IsKeyColumn(column) == column.pk # 0
ColumnName(column) == column.name
RECURSIVE Names(_, _)
Names(q, k) == IF k > Len(q) THEN << >> ELSE <<q[k].name>> \o Names(q, k + 1)

\* variant: only the column flagged as first key participant is kept
PrimaryKeysFlagOne(sch) == Names(Filter(sch, LAMBDA column : column.pk = 1, 1), 1)

\* primary_keys: the names of the columns with a non-zero pk, in column order
PrimaryKeys(sch) == Names(Filter(sch, IsKeyColumn, 1), 1)

\* variant: every falsy value becomes None: `None if not val else val`
DataValueFalsy(val) ==
    IF val.t = "none" \/ (val.t = "int" /\ val.n = 0) \/ (val.t # "int" /\ val.s = "")
    THEN Null ELSE val

\* migrate_table_data, per row: None if val == '' else val
DataValue(val) == IF EqEmptyStr(val) THEN Null ELSE val
DataTuple(row) == [k \in 1..Len(row) |-> DataValue(row[k])]

\* the batched scripts:
\* None if (isinstance(val, str) and val == '') or val is None else val
MysqlValue(val) ==
    IF (val.t = "str" /\ val.s = "") \/ val.t = "none" THEN Null ELSE val
MysqlRow(row) == [k \in 1..Len(row) |-> MysqlValue(row[k])]
MysqlRows(rws) == [j \in 1..Len(rws) |-> MysqlRow(rws[j])]

\* the driver cannot adapt a str holding a NUL character
Adaptable(params) == \A k \in 1..Len(params) : params[k] # NulStr

\* create_indexes: `if index[2]: continue` reads the third field of the
\* index_list row, which is `unique`
Skipped(index) == index[3] # 0

RECURSIVE IndexColumns(_, _)
IndexColumns(info, k) ==
    IF k > Len(info) THEN << >> ELSE <<info[k][3]>> \o IndexColumns(info, k + 1)

\* variant: the target connection is left in autocommit mode
AutocommitLeftOn == TRUE

\* connect_databases: self.neon_conn.autocommit = False
NeonAutocommit == FALSE

\* the visible state after a statement changed the working state to w
Visible(w) == IF NeonAutocommit THEN w ELSE pgc

Log(lvl, ev, obj) == [lvl |-> lvl, ev |-> ev, obj |-> obj, row |-> 0, why |-> ""]
Stmt(op, obj, name, params) ==
    [op |-> op, obj |-> obj, name |-> name, row |-> 0, params |-> params]

CanFault == faults < MaxFaults

-----------------------------------------------------------------------------
(* Initial states *)

Scripts == {"neon", "data_only", "simple"}

FreshRun ==
    /\ tables = << >> /\ ti = 1
    /\ schema = << >>
    /\ rows = << >> /\ ri = 1 /\ migrated_count = 0
    /\ indexes = << >> /\ ii = 1
    /\ sequences = << >> /\ si = 1

\* a process that has just started: nothing parsed, opened or verified yet
FreshProcess ==
    /\ verify_flag = "unread" /\ exit_status = -1
    /\ live = 0
    /\ v_tables = << >> /\ vi = 1

\* create_user has not run: nothing typed, nothing created
NoUserScript ==
    /\ std_in = <<"", "", "", "">>
    /\ username = "" /\ email = "" /\ password = ""
    /\ sqlite_success = "unset" /\ mysql_success = "unset"
    /\ django_db = {}
    /\ mysql_db = [exists |-> FALSE, unique |-> FALSE, users |-> << >>]
    /\ usersAtStart = <<django_db, mysql_db>>

Init ==
    /\ script \in Scripts
    /\ src \in SourceDBs
    /\ run = 1
    /\ pc = "idle"
    /\ sqlite_conn = "none" /\ neon_conn = "none"
    /\ FreshRun
    /\ pgc \in TargetDBs
    /\ pgw = pgc
    /\ txn = "none"
    /\ seqval = [tc \in SeqU |-> 1]
    /\ log = << >> /\ stmts = << >> /\ faults = 0
    /\ outcome = << >>
    /\ pgAtStart = pgc
    /\ pgAfterRun = << >>
    /\ sqlite_type = "" /\ postgres_type = ""
    /\ FreshProcess
    /\ NoUserScript

-----------------------------------------------------------------------------
(* SQLiteToNeonMigrator.migrate, one action per call it makes *)

\* an exception leaves the try block of migrate
Raise(entries) ==
    /\ pc' = "failed"
    /\ log' = log \o entries

\* the effect on the transaction of a statement the server refused
Refused == IF NeonAutocommit \/ txn = "none" THEN txn ELSE "aborted"

\* variant: connect_databases logs the connection error and returns
ConnectDatabasesSwallowed ==
    /\ script = "neon" /\ pc = "idle"
    /\ \/ /\ sqlite_conn' = "open" /\ neon_conn' = "open"
          /\ live' = live + 2
          /\ log' = log \o << Log("info", "connected", "sqlite"),
                              Log("info", "connected", "neon") >>
          /\ UNCHANGED faults
       \/ /\ CanFault /\ faults' = faults + 1
          /\ sqlite_conn' = "open" /\ live' = live + 1 /\ UNCHANGED neon_conn
          /\ log' = Append(log, Log("error", "connection_error", ""))
    /\ txn' = IF NeonAutocommit THEN "none" ELSE "open"
    /\ pgw' = pgc
    /\ pc' = "connected"
    /\ UNCHANGED <<script, src, run, runVars, pgc, seqval, stmts, histVars, typeVars,
                   userVars, mainVars>>

\* connect_databases
ConnectDatabases ==
    /\ script = "neon" /\ pc = "idle"
    /\ \/ /\ sqlite_conn' = "open" /\ neon_conn' = "open"
          /\ live' = live + 2
          /\ txn' = IF NeonAutocommit THEN "none" ELSE "open"
          /\ pgw' = pgc
          /\ pc' = "connected"
          /\ log' = log \o << Log("info", "connected", "sqlite"),
                              Log("info", "connected", "neon") >>
          /\ UNCHANGED faults
       \/ /\ CanFault /\ faults' = faults + 1
          /\ \/ UNCHANGED <<connVars, live>>
             \/ sqlite_conn' = "open" /\ live' = live + 1 /\ UNCHANGED neon_conn
          /\ Raise(<< Log("error", "connection_error", "") >>)
          /\ UNCHANGED <<txn, pgw>>
    /\ UNCHANGED <<script, src, run, runVars, pgc, seqval, stmts, histVars, typeVars,
                   userVars, mainVars>>

\* get_sqlite_tables
GetSqliteTables ==
    /\ script = "neon" /\ pc = "connected"
    /\ \/ /\ tables' = get_sqlite_tables(src) /\ ti' = 1
          /\ pc' = "loop"
          /\ log' = Append(log, Log("info", "found_tables", ""))
          /\ UNCHANGED faults
       \/ /\ CanFault /\ faults' = faults + 1
          /\ Raise(<< >>)
          /\ UNCHANGED <<tables, ti>>
    /\ UNCHANGED <<script, src, run, connVars, schema, rows, ri, migrated_count,
                   indexes, ii, sequences, si, dbVars, stmts, histVars,
                   typeVars, userVars, mainVars, live>>

\* get_table_schema for the table of this iteration
GetTableSchema ==
    /\ script = "neon" /\ pc = "loop" /\ ti <= Len(tables)
    /\ \/ /\ schema' = TableInfo(tables[ti])
          /\ pc' = "schema"
          /\ log' = Append(log, Log("info", "migrating_table", tables[ti]))
          /\ UNCHANGED faults
       \/ /\ CanFault /\ faults' = faults + 1
          /\ Raise(<< Log("info", "migrating_table", tables[ti]) >>)
          /\ UNCHANGED schema
    /\ UNCHANGED <<script, src, run, connVars, tables, ti, rows, ri, migrated_count,
                   indexes, ii, sequences, si, dbVars, stmts, histVars,
                   typeVars, userVars, mainVars, live>>

\* create_postgres_table
CreatePostgresTable ==
    /\ script = "neon" /\ pc = "schema"
    /\ LET t == tables[ti]
           cols == ColumnDefs(schema)
           pk == PrimaryKeys(schema)
           w == DropAndCreate(pgw, t, cols, pk)
       IN
       /\ stmts' = Append(stmts, Stmt("DROP_CREATE", t, "", << >>))
       /\ \/ /\ txn # "aborted"
             /\ pgw' = w /\ pgc' = Visible(w)
             /\ pc' = "created"
             /\ log' = Append(log, Log("info", "created_table", t))
             /\ UNCHANGED <<txn, faults>>
          \/ /\ txn = "aborted" \/ CanFault
             /\ faults' = IF txn = "aborted" THEN faults ELSE faults + 1
             /\ txn' = Refused
             /\ Raise(<< Log("error", "create_error", t) >>)
             /\ UNCHANGED <<pgw, pgc>>
    /\ UNCHANGED <<script, src, run, connVars, runVars, seqval, histVars,
                   typeVars, userVars, mainVars, live>>

\* migrate_table_data up to the insert loop
FetchRows ==
    /\ script = "neon" /\ pc = "created"
    /\ LET t == tables[ti] IN
       \/ /\ rows' = src.rows[t]
          /\ ri' = 1 /\ migrated_count' = 0
          /\ IF Len(src.rows[t]) = 0
               THEN /\ pc' = "copied"
                    /\ log' = Append(log, Log("info", "no_data", t))
               ELSE /\ pc' = "rows"
                    /\ UNCHANGED log
          /\ UNCHANGED faults
       \/ /\ CanFault /\ faults' = faults + 1
          /\ Raise(<< >>)
          /\ UNCHANGED <<rows, ri, migrated_count>>
    /\ UNCHANGED <<script, src, run, connVars, tables, ti, schema, indexes, ii,
                   sequences, si, dbVars, stmts, histVars, typeVars,
                   userVars, mainVars, live>>

\* one iteration of the insert loop; the last one logs the count and returns
InsertRow ==
    /\ script = "neon" /\ pc = "rows" /\ ri <= Len(rows)
    /\ LET t == tables[ti]
           data_tuple == DataTuple(rows[ri])
           verdict == IF ~Adaptable(data_tuple) THEN "adapt"
                      ELSE IF txn = "aborted" THEN "in_failed_transaction"
                      ELSE InsertVerdict(pgw, t, data_tuple)
           count == IF verdict = "ok" THEN migrated_count + 1 ELSE migrated_count
           entry == IF verdict = "ok" THEN << >>
                    ELSE << [lvl |-> "warning", ev |-> "row_error", obj |-> t,
                             row |-> ri, why |-> verdict] >>
           done == IF ri = Len(rows)
                     THEN << Log("info", "migrated", t) >> ELSE << >>
       IN
       /\ stmts' = IF verdict = "adapt" THEN stmts
                   ELSE Append(stmts, [op |-> "INSERT", obj |-> t, name |-> "",
                                       row |-> ri, params |-> data_tuple])
       /\ IF verdict = "ok"
            THEN /\ pgw' = Insert(pgw, t, data_tuple)
                 /\ pgc' = Visible(Insert(pgw, t, data_tuple))
                 /\ UNCHANGED txn
            ELSE /\ txn' = IF verdict = "adapt" THEN txn ELSE Refused
                 /\ UNCHANGED <<pgw, pgc>>
       /\ migrated_count' = count
       /\ log' = log \o entry \o done
       /\ ri' = ri + 1
       /\ pc' = IF ri = Len(rows) THEN "copied" ELSE "rows"
    /\ UNCHANGED <<script, src, run, connVars, tables, ti, schema, rows, indexes, ii,
                   sequences, si, seqval, faults, histVars, typeVars,
                   userVars, mainVars, live>>

\* create_indexes up to the loop over the index list
FetchIndexes ==
    /\ script = "neon" /\ pc = "copied"
    /\ LET t == tables[ti] IN
       \/ /\ indexes' = IndexList(t)
          /\ ii' = 1
          /\ IF Len(IndexList(t)) = 0
               THEN pc' = "loop" /\ ti' = ti + 1
               ELSE pc' = "indexes" /\ UNCHANGED ti
          /\ UNCHANGED <<log, faults>>
       \/ /\ CanFault /\ faults' = faults + 1
          /\ Raise(<< >>)
          /\ UNCHANGED <<indexes, ii, ti>>
    /\ UNCHANGED <<script, src, run, connVars, tables, schema, rows, ri,
                   migrated_count, sequences, si, dbVars, stmts, histVars,
                   typeVars, userVars, mainVars, live>>

\* one iteration of the loop of create_indexes; after the last one
\* create_indexes returns and the table loop moves on
CreateIndex ==
    /\ script = "neon" /\ pc = "indexes" /\ ii <= Len(indexes)
    /\ LET t == tables[ti]
           index == indexes[ii]
           index_name == index[2]
           index_columns == IndexColumns(IndexInfo(index_name), 1)
           w == CreateIndexIfNotExists(pgw, index_name, t, index_columns)
           last == ii = Len(indexes)
           step == /\ ii' = ii + 1
                   /\ pc' = IF last THEN "loop" ELSE "indexes"
                   /\ ti' = IF last THEN ti + 1 ELSE ti
       IN
       \/ /\ Skipped(index)
          /\ step
          /\ UNCHANGED <<dbVars, log, stmts, faults>>
       \/ /\ ~Skipped(index)
          /\ stmts' = Append(stmts, Stmt("CREATE_INDEX", t, index_name, << >>))
          /\ \/ /\ txn # "aborted"
                /\ pgw' = w /\ pgc' = Visible(w)
                /\ log' = Append(log, Log("info", "created_index", index_name))
                /\ UNCHANGED <<txn, faults>>
             \/ /\ txn = "aborted" \/ CanFault
                /\ faults' = IF txn = "aborted" THEN faults ELSE faults + 1
                /\ txn' = Refused
                /\ log' = Append(log, Log("warning", "index_error", index_name))
                /\ UNCHANGED <<pgw, pgc>>
          /\ step
          /\ UNCHANGED seqval
       \/ \* PRAGMA index_info or the join of its column names raises
          /\ ~Skipped(index)
          /\ CanFault /\ faults' = faults + 1
          /\ Raise(<< >>)
          /\ UNCHANGED <<ii, ti, dbVars, stmts>>
    /\ UNCHANGED <<script, src, run, connVars, tables, schema, rows, ri,
                   migrated_count, indexes, sequences, si, histVars,
                   typeVars, userVars, mainVars, live>>

\* reset_sequences up to its loop: the query on information_schema.columns
ListSequences ==
    /\ script = "neon" /\ pc = "loop" /\ ti > Len(tables)
    /\ stmts' = Append(stmts, Stmt("SELECT_SEQUENCES", "", "", << >>))
    /\ \/ /\ txn # "aborted"
          /\ \E q \in Orderings(SerialColumns(pgw)) :
                /\ sequences' = q /\ si' = 1
                /\ pc' = IF Len(q) = 0 THEN "seqreset" ELSE "sequences"
          /\ UNCHANGED <<log, txn, faults>>
       \/ /\ txn = "aborted" \/ CanFault
          /\ faults' = IF txn = "aborted" THEN faults ELSE faults + 1
          /\ txn' = Refused
          /\ Raise(<< >>)
          /\ UNCHANGED <<sequences, si>>
    /\ UNCHANGED <<script, src, run, connVars, tables, ti, schema, rows, ri,
                   migrated_count, indexes, ii, pgc, pgw, seqval, histVars,
                   typeVars, userVars, mainVars, live>>

\* one iteration of the loop of reset_sequences
ResetSequence ==
    /\ script = "neon" /\ pc = "sequences" /\ si <= Len(sequences)
    /\ LET tc == sequences[si]
           v == CoalesceMax(pgw, tc)
           name == tc[1]
       IN
       /\ stmts' = Append(stmts, Stmt("SETVAL", name, tc[2], << >>))
       /\ \/ /\ txn # "aborted" /\ SetvalAccepts(v)
             /\ seqval' = [seqval EXCEPT ![tc] = v + 1]
             /\ log' = Append(log, Log("info", "reset_sequence", name))
             /\ UNCHANGED <<txn, faults>>
          \/ /\ txn = "aborted" \/ ~SetvalAccepts(v) \/ CanFault
             /\ faults' = IF txn = "aborted" \/ ~SetvalAccepts(v)
                            THEN faults ELSE faults + 1
             /\ txn' = Refused
             /\ log' = Append(log, Log("warning", "sequence_error", name))
             /\ UNCHANGED seqval
    /\ si' = si + 1
    /\ pc' = IF si = Len(sequences) THEN "seqreset" ELSE "sequences"
    /\ UNCHANGED <<script, src, run, connVars, tables, ti, schema, rows, ri,
                   migrated_count, indexes, ii, sequences, pgc, pgw, histVars,
                   typeVars, userVars, mainVars, live>>

\* self.neon_conn.commit(): COMMIT of a failed transaction is answered with
\* ROLLBACK and raises nothing
Commit ==
    /\ script = "neon" /\ pc = "seqreset"
    /\ \/ /\ pgc' = IF txn = "open" THEN pgw ELSE pgc
          /\ pgw' = pgc'
          /\ txn' = "none"
          /\ stmts' = Append(stmts, Stmt("COMMIT", "", "", << >>))
          /\ pc' = "committed"
          /\ log' = Append(log, Log("info", "completed", ""))
          /\ UNCHANGED faults
       \/ /\ CanFault /\ faults' = faults + 1
          /\ Raise(<< >>)
          /\ UNCHANGED <<pgc, pgw, txn, stmts>>
    /\ UNCHANGED <<script, src, run, connVars, runVars, seqval, histVars,
                   typeVars, userVars, mainVars, live>>

\* a handler that logs the failure and then carries on to the commit, as if
\* the except block neither rolled back nor re-raised
HandleFailureSwallowed ==
    /\ script = "neon" /\ pc = "failed"
    /\ log' = Append(log, Log("error", "migration_failed", ""))
    /\ IF neon_conn = "open"
         THEN /\ pgc' = pgw /\ txn' = "none"
              /\ stmts' = Append(stmts, Stmt("COMMIT", "", "", << >>))
         ELSE UNCHANGED <<pgc, txn, stmts>>
    /\ pc' = "committed"
    /\ UNCHANGED <<script, src, run, connVars, runVars, pgw, seqval, faults,
                   histVars, typeVars, userVars, mainVars, live>>

\* except Exception: log, roll back when there is a target connection, re-raise
HandleFailure ==
    /\ script = "neon" /\ pc = "failed"
    /\ log' = Append(log, Log("error", "migration_failed", ""))
    /\ IF neon_conn = "open"
         THEN /\ pgw' = pgc /\ txn' = "none"
              /\ stmts' = Append(stmts, Stmt("ROLLBACK", "", "", << >>))
         ELSE UNCHANGED <<pgw, txn, stmts>>
    /\ pc' = "rolledback"
    /\ UNCHANGED <<script, src, run, connVars, runVars, pgc, seqval, faults,
                   histVars, typeVars, userVars, mainVars, live>>

\* variant: a finally block that closes nothing
CloseSkipped(c) == c

Close(c) == IF c = "none" THEN "none" ELSE "closed"

\* how many open connections a close of c ends
Ended(c) == IF c = "open" /\ Close(c) = "closed" THEN 1 ELSE 0

\* finally: close the connections that were opened; migrate returns or raises
CloseConnections ==
    /\ script = "neon" /\ pc \in {"committed", "rolledback"}
    /\ sqlite_conn' = Close(sqlite_conn)
    /\ neon_conn' = Close(neon_conn)
    /\ live' = live - Ended(sqlite_conn) - Ended(neon_conn)
    /\ outcome' = Append(outcome, [result |-> pc, faults |-> faults])
    /\ pgAfterRun' = Append(pgAfterRun, pgc)
    /\ pc' = "done"
    /\ UNCHANGED <<script, src, run, runVars, dbVars, log, stmts, faults, pgAtStart,
                   typeVars, userVars, mainVars>>

-----------------------------------------------------------------------------
(* main of migrate_sqlite_to_neon.py after migrate() returned or raised, and
   verify_migration *)

\* variant: the except block of main logs the failure and falls off the end
MainHandleFailureNoExit ==
    /\ script = "neon" /\ pc = "done"
    /\ outcome[Len(outcome)].result = "rolledback"
    /\ log' = Append(log, Log("error", "process_failed", ""))
    /\ exit_status' = 0
    /\ pc' = "exited"
    /\ UNCHANGED <<script, src, run, connVars, runVars, dbVars, stmts, faults,
                   histVars, typeVars, userVars, verify_flag, v_tables, vi, live>>

\* migrate raised: except Exception: logger.error, sys.exit(1)
MainHandleFailure ==
    /\ script = "neon" /\ pc = "done"
    /\ outcome[Len(outcome)].result = "rolledback"
    /\ log' = Append(log, Log("error", "process_failed", ""))
    /\ exit_status' = 1
    /\ pc' = "exited"
    /\ UNCHANGED <<script, src, run, connVars, runVars, dbVars, stmts, faults,
                   histVars, typeVars, userVars, verify_flag, v_tables, vi, live>>

\* migrate returned: `if args.verify:`
MainAfterMigrate ==
    /\ script = "neon" /\ pc = "done"
    /\ outcome[Len(outcome)].result = "committed"
    /\ \E flag \in {"given", "absent"} :
          /\ verify_flag' = flag
          /\ pc' = IF flag = "given" THEN "verify" ELSE "finishing"
    /\ UNCHANGED <<script, src, run, connVars, runVars, dbVars, log, stmts, faults,
                   histVars, typeVars, userVars, exit_status, v_tables, vi, live>>

\* verify_migration: self.connect_databases() binds the attributes to new
\* connections; when the second connect fails, neon_conn keeps its old value
VerifyConnect ==
    /\ script = "neon" /\ pc = "verify"
    /\ \/ /\ sqlite_conn' = "open" /\ neon_conn' = "open"
          /\ live' = live + 2
          /\ txn' = IF NeonAutocommit THEN "none" ELSE "open"
          /\ pgw' = pgc
          /\ pc' = "v_connected"
          /\ log' = log \o << Log("info", "verifying", ""),
                              Log("info", "connected", "sqlite"),
                              Log("info", "connected", "neon") >>
          /\ UNCHANGED faults
       \/ /\ CanFault /\ faults' = faults + 1
          /\ \/ UNCHANGED <<connVars, live>>
             \/ sqlite_conn' = "open" /\ live' = live + 1 /\ UNCHANGED neon_conn
          /\ log' = log \o << Log("info", "verifying", ""),
                              Log("error", "connection_error", ""),
                              Log("error", "verification_failed", "") >>
          /\ pc' = "v_closing"
          /\ UNCHANGED <<txn, pgw>>
    /\ UNCHANGED <<script, src, run, runVars, pgc, seqval, stmts, histVars, typeVars,
                   userVars, mainVars>>

\* verify_migration: tables = self.get_sqlite_tables()
VerifyGetTables ==
    /\ script = "neon" /\ pc = "v_connected"
    /\ \/ /\ v_tables' = get_sqlite_tables(src) /\ vi' = 1
          /\ pc' = "v_loop"
          /\ log' = Append(log, Log("info", "found_tables", ""))
          /\ UNCHANGED faults
       \/ /\ CanFault /\ faults' = faults + 1
          /\ log' = Append(log, Log("error", "verification_failed", ""))
          /\ pc' = "v_closing"
          /\ UNCHANGED <<v_tables, vi>>
    /\ UNCHANGED <<script, src, run, connVars, runVars, dbVars, stmts, histVars,
                   typeVars, userVars, verify_flag, exit_status, live>>

\* one iteration of the loop of verify_migration: the two COUNT(*) queries and
\* the comparison; a query that fails ends the loop in the except block
VerifyTable ==
    /\ script = "neon" /\ pc = "v_loop" /\ vi <= Len(v_tables)
    /\ LET t == v_tables[vi]
           sqlite_count == Len(src.rows[t])
           postgres_count == Len(pgw.tables[t].rows)
       IN
       /\ stmts' = Append(stmts, Stmt("COUNT", t, "", << >>))
       /\ \/ /\ txn # "aborted" /\ pgw.tables[t].exists
             /\ log' = Append(log, IF sqlite_count = postgres_count
                                     THEN Log("info", "count_match", t)
                                     ELSE Log("warning", "count_mismatch", t))
             /\ vi' = vi + 1
             /\ UNCHANGED <<pc, txn, faults>>
          \/ /\ ~pgw.tables[t].exists \/ CanFault
             /\ faults' = IF ~pgw.tables[t].exists THEN faults ELSE faults + 1
             /\ txn' = Refused
             /\ log' = Append(log, Log("error", "verification_failed", t))
             /\ pc' = "v_closing"
             /\ UNCHANGED vi
    /\ UNCHANGED <<script, src, run, connVars, runVars, pgc, pgw, seqval, histVars,
                   typeVars, userVars, verify_flag, exit_status, v_tables, live>>

\* the loop is over: "Migration verification completed"
VerifyDone ==
    /\ script = "neon" /\ pc = "v_loop" /\ vi > Len(v_tables)
    /\ log' = Append(log, Log("info", "verification_completed", ""))
    /\ pc' = "v_closing"
    /\ UNCHANGED <<script, src, run, connVars, runVars, dbVars, stmts, faults,
                   histVars, typeVars, userVars, mainVars, live>>

\* finally of verify_migration: close whatever the attributes hold; closing
\* ends the open transaction without a commit
VerifyClose ==
    /\ script = "neon" /\ pc = "v_closing"
    /\ sqlite_conn' = Close(sqlite_conn)
    /\ neon_conn' = Close(neon_conn)
    /\ live' = live - Ended(sqlite_conn) - Ended(neon_conn)
    /\ txn' = "none" /\ pgw' = pgc
    /\ pc' = "finishing"
    /\ UNCHANGED <<script, src, run, runVars, pgc, seqval, log, stmts, faults,
                   histVars, typeVars, userVars, mainVars>>

\* logger.info("Migration process completed successfully!"); main returns
MainExit ==
    /\ script = "neon" /\ pc = "finishing"
    /\ log' = Append(log, Log("info", "process_completed", ""))
    /\ exit_status' = 0
    /\ pc' = "exited"
    /\ UNCHANGED <<script, src, run, connVars, runVars, dbVars, stmts, faults,
                   histVars, typeVars, userVars, verify_flag, v_tables, vi, live>>

-----------------------------------------------------------------------------
(* migrate_data_only.py and simple_migrate.py: MySQL, autocommit, one batched
   INSERT per table *)

Mysql == script \in {"data_only", "simple"}

\* the answer to a multi-row INSERT: the first row the server refuses decides
RECURSIVE BatchVerdict(_, _, _, _)
BatchVerdict(db, t, batch, k) ==
    IF k > Len(batch) THEN "ok"
    ELSE LET v == InsertVerdict(db, t, batch[k]) IN
         IF v # "ok" THEN v ELSE BatchVerdict(Insert(db, t, batch[k]), t, batch, k + 1)

RECURSIVE InsertAll(_, _, _, _)
InsertAll(db, t, batch, k) ==
    IF k > Len(batch) THEN db ELSE InsertAll(Insert(db, t, batch[k]), t, batch, k + 1)

\* simple_migrate.migrate_table: the type chain, the length of a CHAR type
\* being taken from col[3], the notnull flag
SimpleType(col) ==
    LET col_type == Upper(col.type) IN
    IF Contains("INT", col_type) THEN "INT"
    ELSE IF Contains("TEXT", col_type) THEN "TEXT"
    ELSE IF Contains("REAL", col_type) \/ Contains("FLOAT", col_type) THEN "DOUBLE"
    ELSE IF Contains("CHAR", col_type)
      THEN "VARCHAR(" \o (IF col.notnull = 1 THEN "1" ELSE "0") \o ")"
    ELSE "TEXT"

SimpleColumnDef(col) == ColDef(col.name, SimpleType(col), col.notnull = 1, "")
SimpleColumnDefs(sch) == [k \in 1..Len(sch) |-> SimpleColumnDef(sch[k])]

\* PRIMARY KEY only when the first column is flagged with pk = 1
SimplePrimaryKey(sch) ==
    IF Len(sch) > 0 /\ sch[1].pk = 1 THEN <<sch[1].name>> ELSE << >>

\* connect_databases of either script, then main's test of its result
MysqlConnect ==
    /\ Mysql /\ pc = "idle"
    /\ \/ /\ sqlite_conn' = "open" /\ neon_conn' = "open"
          /\ live' = live + 2
          /\ pc' = "connected"
          /\ UNCHANGED <<log, faults, outcome, pgAfterRun>>
       \/ /\ CanFault /\ faults' = faults + 1
          /\ UNCHANGED connVars
          /\ live' = live + 1
          /\ log' = Append(log, Log("error", "connection_error", "mysql"))
          /\ outcome' = Append(outcome, [result |-> "not_connected", faults |-> faults + 1])
          /\ pgAfterRun' = Append(pgAfterRun, pgc)
          /\ pc' = "done"
    /\ UNCHANGED <<script, src, run, runVars, dbVars, stmts, pgAtStart, typeVars,
                   userVars, mainVars>>

\* main up to the table loop: (create the database,) USE it, get_table_names
MysqlPrepare ==
    /\ Mysql /\ pc = "connected"
    /\ \/ /\ tables' = get_table_names(src) /\ ti' = 1
          /\ pc' = "loop"
          /\ log' = Append(log, Log("info", "found_tables", ""))
          /\ UNCHANGED faults
       \/ /\ CanFault /\ faults' = faults + 1
          /\ \/ script = "simple" /\ pc' = "stopped"
                /\ log' = Append(log, Log("error", "create_database_error", ""))
             \/ pc' = "failed"
                /\ log' = Append(log, Log("error", "migration_failed", ""))
          /\ UNCHANGED <<tables, ti>>
    /\ UNCHANGED <<script, src, run, connVars, schema, rows, ri, migrated_count,
                   indexes, ii, sequences, si, dbVars, stmts, histVars,
                   typeVars, userVars, mainVars, live>>

\* variant: migrate_table_data prints the failure and raises it to main, as
\* migrate_table of simple_migrate does
MigrateTableDataRaising ==
    /\ script = "data_only" /\ pc = "loop" /\ ti <= Len(tables)
    /\ LET t == tables[ti]
           mysql_rows == MysqlRows(src.rows[t])
           verdict == BatchVerdict(pgc, t, mysql_rows, 1)
       IN
       /\ rows' = src.rows[t]
       /\ IF Len(src.rows[t]) = 0
            THEN /\ log' = Append(log, Log("info", "no_data", t))
                 /\ ti' = ti + 1
                 /\ UNCHANGED <<pgc, stmts, faults, pc>>
            ELSE /\ stmts' = Append(stmts, Stmt("INSERT_MANY", t, "", mysql_rows))
                 /\ \/ /\ verdict = "ok"
                       /\ pgc' = InsertAll(pgc, t, mysql_rows, 1)
                       /\ log' = Append(log, Log("info", "migrated", t))
                       /\ ti' = ti + 1
                       /\ UNCHANGED <<faults, pc>>
                    \/ /\ verdict # "ok" \/ CanFault
                       /\ faults' = IF verdict # "ok" THEN faults ELSE faults + 1
                       /\ log' = log \o << Log("error", "table_error", t),
                                           Log("error", "migration_failed", "") >>
                       /\ pc' = "failed"
                       /\ UNCHANGED <<pgc, ti>>
    /\ UNCHANGED <<script, src, run, connVars, tables, schema, ri, migrated_count,
                   indexes, ii, sequences, si, pgw, txn, seqval, histVars,
                   typeVars, userVars, mainVars, live>>

\* migrate_data_only.migrate_table_data: a failure is printed, the loop goes on
MigrateTableData ==
    /\ script = "data_only" /\ pc = "loop" /\ ti <= Len(tables)
    /\ LET t == tables[ti]
           mysql_rows == MysqlRows(src.rows[t])
           verdict == BatchVerdict(pgc, t, mysql_rows, 1)
       IN
       /\ rows' = src.rows[t]
       /\ IF Len(src.rows[t]) = 0
            THEN /\ log' = Append(log, Log("info", "no_data", t))
                 /\ UNCHANGED <<pgc, stmts, faults>>
            ELSE /\ stmts' = Append(stmts, Stmt("INSERT_MANY", t, "", mysql_rows))
                 /\ \/ /\ verdict = "ok"
                       /\ pgc' = InsertAll(pgc, t, mysql_rows, 1)
                       /\ log' = Append(log, Log("info", "migrated", t))
                       /\ UNCHANGED faults
                    \/ /\ verdict # "ok" \/ CanFault
                       /\ faults' = IF verdict # "ok" THEN faults ELSE faults + 1
                       /\ log' = Append(log, Log("error", "table_error", t))
                       /\ UNCHANGED pgc
    /\ ti' = ti + 1
    /\ UNCHANGED <<script, src, run, pc, connVars, tables, schema, ri, migrated_count,
                   indexes, ii, sequences, si, pgw, txn, seqval, histVars,
                   typeVars, userVars, mainVars, live>>

\* variant: migrate_table prints the failure and returns, as migrate_table_data
\* of migrate_data_only does
MigrateTableSwallowing ==
    /\ script = "simple" /\ pc = "loop" /\ ti <= Len(tables)
    /\ LET t == tables[ti]
           sch == TableInfo(t)
           created == CreateIfNotExists(pgc, t, SimpleColumnDefs(sch),
                                        SimplePrimaryKey(sch))
           mysql_rows == MysqlRows(src.rows[t])
           verdict == BatchVerdict(created, t, mysql_rows, 1)
       IN
       /\ schema' = sch
       /\ IF Len(sch) = 0
            THEN /\ log' = Append(log, Log("info", "no_schema", t))
                 /\ ti' = ti + 1
                 /\ UNCHANGED <<rows, pgc, stmts, faults, pc>>
            ELSE
            /\ rows' = src.rows[t]
            /\ IF Len(src.rows[t]) = 0
                 THEN /\ log' = Append(log, Log("info", "no_data", t))
                      /\ ti' = ti + 1
                      /\ UNCHANGED <<pgc, stmts, faults, pc>>
                 ELSE
                 \/ /\ verdict = "ok"
                    /\ pgc' = InsertAll(created, t, mysql_rows, 1)
                    /\ stmts' = stmts \o << Stmt("CREATE_IF_NOT_EXISTS", t, "", << >>),
                                            Stmt("INSERT_MANY", t, "", mysql_rows) >>
                    /\ log' = Append(log, Log("info", "migrated", t))
                    /\ ti' = ti + 1
                    /\ UNCHANGED <<faults, pc>>
                 \/ /\ verdict # "ok" \/ CanFault
                    /\ faults' = IF verdict # "ok" THEN faults ELSE faults + 1
                    /\ pgc' = created
                    /\ stmts' = stmts \o << Stmt("CREATE_IF_NOT_EXISTS", t, "", << >>),
                                            Stmt("INSERT_MANY", t, "", mysql_rows) >>
                    /\ log' = Append(log, Log("error", "table_error", t))
                    /\ ti' = ti + 1
                    /\ UNCHANGED pc
    /\ UNCHANGED <<script, src, run, connVars, tables, ri, migrated_count,
                   indexes, ii, sequences, si, pgw, txn, seqval, histVars,
                   typeVars, userVars, mainVars, live>>

\* simple_migrate.migrate_table: a failure is printed and raised to main
MigrateTable ==
    /\ script = "simple" /\ pc = "loop" /\ ti <= Len(tables)
    /\ LET t == tables[ti]
           sch == TableInfo(t)
           created == CreateIfNotExists(pgc, t, SimpleColumnDefs(sch),
                                        SimplePrimaryKey(sch))
           mysql_rows == MysqlRows(src.rows[t])
           verdict == BatchVerdict(created, t, mysql_rows, 1)
       IN
       /\ schema' = sch
       /\ IF Len(sch) = 0
            THEN /\ log' = Append(log, Log("info", "no_schema", t))
                 /\ ti' = ti + 1
                 /\ UNCHANGED <<rows, pgc, stmts, faults, pc>>
            ELSE
            /\ rows' = src.rows[t]
            /\ IF Len(src.rows[t]) = 0
                 THEN /\ log' = Append(log, Log("info", "no_data", t))
                      /\ ti' = ti + 1
                      /\ UNCHANGED <<pgc, stmts, faults, pc>>
                 ELSE
                 \/ /\ verdict = "ok"
                    /\ pgc' = InsertAll(created, t, mysql_rows, 1)
                    /\ stmts' = stmts \o << Stmt("CREATE_IF_NOT_EXISTS", t, "", << >>),
                                            Stmt("INSERT_MANY", t, "", mysql_rows) >>
                    /\ log' = Append(log, Log("info", "migrated", t))
                    /\ ti' = ti + 1
                    /\ UNCHANGED <<faults, pc>>
                 \/ /\ verdict # "ok" \/ CanFault
                    /\ faults' = IF verdict # "ok" THEN faults ELSE faults + 1
                    /\ pgc' = created
                    /\ stmts' = stmts \o << Stmt("CREATE_IF_NOT_EXISTS", t, "", << >>),
                                            Stmt("INSERT_MANY", t, "", mysql_rows) >>
                    /\ log' = log \o << Log("error", "table_error", t),
                                        Log("error", "migration_failed", "") >>
                    /\ pc' = "failed"
                    /\ UNCHANGED ti
    /\ UNCHANGED <<script, src, run, connVars, tables, ri, migrated_count,
                   indexes, ii, sequences, si, pgw, txn, seqval, histVars,
                   typeVars, userVars, mainVars, live>>

\* the table loop is over: the closing messages are printed
MysqlFinish ==
    /\ Mysql /\ pc = "loop" /\ ti > Len(tables)
    /\ log' = Append(log, Log("info", "completed", ""))
    /\ pc' = "finished"
    /\ UNCHANGED <<script, src, run, connVars, runVars, dbVars, stmts, faults,
                   histVars, typeVars, userVars, mainVars, live>>

\* finally: both connections are closed
MysqlClose ==
    /\ Mysql /\ pc \in {"finished", "failed", "stopped"}
    /\ sqlite_conn' = Close(sqlite_conn)
    /\ neon_conn' = Close(neon_conn)
    /\ live' = live - Ended(sqlite_conn) - Ended(neon_conn)
    /\ outcome' = Append(outcome, [result |-> pc, faults |-> faults])
    /\ pgAfterRun' = Append(pgAfterRun, pgc)
    /\ pc' = "done"
    /\ UNCHANGED <<script, src, run, runVars, dbVars, log, stmts, faults, pgAtStart,
                   typeVars, userVars, mainVars>>

-----------------------------------------------------------------------------
(* The script is started again on the same databases *)

NextRun ==
    /\ pc = (IF script = "neon" THEN "exited" ELSE "done") /\ run < MaxRuns
    /\ run' = run + 1
    /\ pc' = "idle"
    /\ sqlite_conn' = "none" /\ neon_conn' = "none"
    /\ tables' = << >> /\ ti' = 1
    /\ schema' = << >>
    /\ rows' = << >> /\ ri' = 1 /\ migrated_count' = 0
    /\ indexes' = << >> /\ ii' = 1
    /\ sequences' = << >> /\ si' = 1
    /\ pgw' = pgc /\ txn' = "none"
    /\ log' = << >> /\ stmts' = << >> /\ faults' = 0
    /\ pgAtStart' = pgc
    /\ verify_flag' = "unread" /\ exit_status' = -1
    /\ live' = 0
    /\ v_tables' = << >> /\ vi' = 1
    /\ UNCHANGED <<script, src, pgc, seqval, outcome, pgAfterRun, typeVars,
                   userVars>>

Next ==
    \/ ConnectDatabases
    \/ GetSqliteTables
    \/ GetTableSchema
    \/ CreatePostgresTable
    \/ FetchRows
    \/ InsertRow
    \/ FetchIndexes
    \/ CreateIndex
    \/ ListSequences
    \/ ResetSequence
    \/ Commit
    \/ HandleFailure
    \/ CloseConnections
    \/ MainHandleFailure
    \/ MainAfterMigrate
    \/ VerifyConnect
    \/ VerifyGetTables
    \/ VerifyTable
    \/ VerifyDone
    \/ VerifyClose
    \/ MainExit
    \/ MysqlConnect
    \/ MysqlPrepare
    \/ MigrateTableData
    \/ MigrateTable
    \/ MysqlFinish
    \/ MysqlClose
    \/ NextRun

Spec == Init /\ [][Next]_vars

-----------------------------------------------------------------------------
(* convert_sqlite_type_to_postgres applied to declared types *)

TypeNames ==
    {"INTEGER", "integer", "Integer", "INT", "int", "BIGINT", "bigint",
     "SMALLINT", "TEXT", "text", "Text", "REAL", "real", "BLOB", "blob",
     "NUMERIC", "numeric", "DECIMAL", "decimal", "BOOLEAN", "boolean", "bool",
     "DATE", "date", "DATETIME", "datetime", "TIME", "time", "TIMESTAMP",
     "VARCHAR", "varchar", "Varchar", "NVARCHAR", "nvarchar",
     "CHAR", "char", "Char", "cHaR", "NCHAR", "nchar", "CHARACTER", "character",
     "DOUBLE", "FLOAT", "CLOB", "JSON", "json", ""}

TypeLengths == {"", "(10)", "(1)"}

DeclaredTypes == { n \o l : n \in TypeNames, l \in TypeLengths }

TypeInit ==
    /\ script = "types"
    /\ src = MkSource(<< >>, [t \in SrcTables |-> {}])
    /\ run = 1
    /\ pc = "call"
    /\ sqlite_conn = "none" /\ neon_conn = "none"
    /\ FreshRun
    /\ pgc = EmptyTarget
    /\ pgw = pgc
    /\ txn = "none"
    /\ seqval = [tc \in SeqU |-> 1]
    /\ log = << >> /\ stmts = << >> /\ faults = 0
    /\ outcome = << >>
    /\ pgAtStart = pgc
    /\ pgAfterRun = << >>
    /\ sqlite_type \in DeclaredTypes
    /\ postgres_type = ""
    /\ FreshProcess
    /\ NoUserScript

ConvertType ==
    /\ script = "types" /\ pc = "call"
    /\ postgres_type' = convert_sqlite_type_to_postgres(sqlite_type)
    /\ pc' = "returned"
    /\ UNCHANGED <<script, src, run, connVars, runVars, dbVars, log, stmts, faults,
                   histVars, sqlite_type, mainVars, live,
                   userVars>>

TypeNext == ConvertType

SpecTypes == TypeInit /\ [][TypeNext]_vars


-----------------------------------------------------------------------------
(* create_postgres_table applied to schemas drawn freely: the migrator is
   about to create the one table of a source whose PRAGMA table_info rows
   are any combination of key flags and notnull flags *)

SchemaColumnName(k) ==
    CASE k = 1 -> "id" [] k = 2 -> "hostname" [] k = 3 -> "email"
      [] OTHER -> "note"

Schemas ==
    UNION { { [k \in 1..n |->
                 Col(k - 1, SchemaColumnName(k), "integer", nn[k], "", key[k])] :
              nn \in [1..n -> {0, 1}], key \in [1..n -> {0, 1, 2}] } :
            n \in 1..MaxCols }

SchemaInit ==
    /\ script = "neon"
    /\ src = MkSource(<<"users">>, [t \in SrcTables |-> {}])
    /\ run = 1
    /\ pc = "schema"
    /\ sqlite_conn = "open" /\ neon_conn = "open"
    /\ tables = <<"users">> /\ ti = 1
    /\ schema \in Schemas
    /\ rows = << >> /\ ri = 1 /\ migrated_count = 0
    /\ indexes = << >> /\ ii = 1
    /\ sequences = << >> /\ si = 1
    /\ pgc = EmptyTarget
    /\ pgw = pgc
    /\ txn = "open"
    /\ seqval = [tc \in SeqU |-> 1]
    /\ log = << Log("info", "connected", "sqlite"), Log("info", "connected", "neon"),
                Log("info", "found_tables", ""),
                Log("info", "migrating_table", "users") >>
    /\ stmts = << >> /\ faults = 0
    /\ outcome = << >>
    /\ pgAtStart = pgc
    /\ pgAfterRun = << >>
    /\ sqlite_type = "" /\ postgres_type = ""
    /\ verify_flag = "unread" /\ exit_status = -1
    /\ live = 2
    /\ v_tables = << >> /\ vi = 1
    /\ NoUserScript

SchemaNext == CreatePostgresTable

SpecSchemas == SchemaInit /\ [][SchemaNext]_vars

-----------------------------------------------------------------------------
(* create_user.py: one superuser, created through the Django ORM and then by
   a direct INSERT into MySQL (autocommit).  What the script prints is kept
   in `log`. *)

IsSpace(c) == c \in {" ", "\t"}

RECURSIVE LStrip(_)
LStrip(s) ==
    IF Len(s) > 0 /\ IsSpace(SubSeq(s, 1, 1)) THEN LStrip(SubSeq(s, 2, Len(s)))
    ELSE s

RECURSIVE RStrip(_)
RStrip(s) ==
    IF Len(s) > 0 /\ IsSpace(SubSeq(s, Len(s), Len(s)))
      THEN RStrip(SubSeq(s, 1, Len(s) - 1))
    ELSE s

\* Python str.strip()
Strip(s) == RStrip(LStrip(s))

TypedNames == {"", " ", "bob", " bob", "amy"}
TypedEmails == {"", "\t", "b@x.io "}
TypedPasswords == {"", "pw", "pw ", "px"}

\* auth_user of the Django database: username is unique
DjangoDBs == { {}, {"bob"} }

\* auth_user of the MySQL database: missing, as Django creates it (username
\* unique), or as simple_migrate creates it (no unique index)
MysqlUserDBs ==
    { [exists |-> FALSE, unique |-> FALSE, users |-> << >>],
      [exists |-> TRUE, unique |-> TRUE, users |-> << >>],
      [exists |-> TRUE, unique |-> TRUE, users |-> <<"bob">>],
      [exists |-> TRUE, unique |-> FALSE, users |-> <<"bob">>] }

Printed(ev, obj) == Log("print", ev, obj)

UserInit ==
    /\ script = "create_user"
    /\ src = MkSource(<< >>, [t \in SrcTables |-> {}])
    /\ run = 1
    /\ pc = "start"
    /\ sqlite_conn = "none" /\ neon_conn = "none"
    /\ FreshRun
    /\ pgc = EmptyTarget
    /\ pgw = pgc
    /\ txn = "none"
    /\ seqval = [tc \in SeqU |-> 1]
    /\ log = << >> /\ stmts = << >> /\ faults = 0
    /\ outcome = << >>
    /\ pgAtStart = pgc
    /\ pgAfterRun = << >>
    /\ sqlite_type = "" /\ postgres_type = ""
    /\ FreshProcess
    /\ std_in \in TypedNames \X TypedEmails \X TypedPasswords \X TypedPasswords
    /\ username = "" /\ email = "" /\ password = ""
    /\ sqlite_success = "unset" /\ mysql_success = "unset"
    /\ django_db \in DjangoDBs
    /\ mysql_db \in MysqlUserDBs
    /\ usersAtStart = <<django_db, mysql_db>>

\* what no action of create_user touches
UserFrame ==
    UNCHANGED <<script, src, run, connVars, runVars, dbVars, stmts, histVars,
                typeVars, mainVars, live, std_in, usersAtStart>>

\* main: the banner, load_env_file, django.setup()
DjangoSetup ==
    /\ script = "create_user" /\ pc = "start"
    /\ \/ /\ log' = Append(log, Printed("banner", ""))
          /\ pc' = "input"
          /\ UNCHANGED faults
       \/ /\ CanFault /\ faults' = faults + 1
          /\ log' = log \o << Printed("banner", ""), Printed("setup_error", "") >>
          /\ pc' = "exited"
    /\ UNCHANGED <<username, email, password, sqlite_success, mysql_success,
                   django_db, mysql_db>>
    /\ UserFrame

\* get_user_input, then main's test of user_data[0] and the two lines it
\* prints before the creations
GetUserInput ==
    /\ script = "create_user" /\ pc = "input"
    /\ LET u == Strip(std_in[1])
           e == Strip(std_in[2])
           p == Strip(std_in[3])
           confirm_password == Strip(std_in[4])
           rejection ==
               IF u = "" THEN "username_empty"
               ELSE IF e = "" THEN "email_empty"
               ELSE IF p = "" THEN "password_empty"
               ELSE IF p # confirm_password THEN "passwords_differ"
               ELSE ""
       IN
       \/ /\ rejection # ""
          /\ log' = Append(log, Printed(rejection, ""))
          /\ pc' = "exited"
          /\ UNCHANGED <<username, email, password, faults>>
       \/ /\ rejection = ""
          /\ username' = u /\ email' = e /\ password' = p
          /\ log' = Append(log, Printed("creating_user", u))
          /\ pc' = "django"
          /\ UNCHANGED faults
       \/ /\ CanFault /\ faults' = faults + 1
          /\ log' = Append(log, Printed("setup_error", ""))
          /\ pc' = "exited"
          /\ UNCHANGED <<username, email, password>>
    /\ UNCHANGED <<sqlite_success, mysql_success, django_db, mysql_db>>
    /\ UserFrame

\* create_user_in_django: exists() first, then create_user; any exception is
\* printed and answered with False
CreateUserInDjango ==
    /\ script = "create_user" /\ pc = "django"
    /\ \/ /\ username \in django_db
          /\ log' = Append(log, Printed("exists_sqlite", username))
          /\ sqlite_success' = "False"
          /\ UNCHANGED <<django_db, faults>>
       \/ /\ username \notin django_db
          /\ django_db' = django_db \cup {username}
          /\ log' = Append(log, Printed("created_sqlite", username))
          /\ sqlite_success' = "True"
          /\ UNCHANGED faults
       \/ /\ CanFault /\ faults' = faults + 1
          /\ log' = Append(log, Printed("error_django", username))
          /\ sqlite_success' = "False"
          /\ UNCHANGED django_db
    /\ pc' = "mysql"
    /\ UNCHANGED <<username, email, password, mysql_success, mysql_db>>
    /\ UserFrame

\* the server's answer to the INSERT INTO auth_user
UserInsertVerdict(db, u) ==
    IF ~db.exists THEN "no_table"
    ELSE IF db.unique /\ InSeq(u, db.users) THEN "duplicate"
    ELSE "ok"

\* create_user_in_mysql: connect (autocommit), SET NAMES, USE, INSERT,
\* commit(); any exception is printed and answered with False.  With
\* autocommit the INSERT is durable when it returns, before commit() is sent.
CreateUserInMysql ==
    /\ script = "create_user" /\ pc = "mysql"
    /\ \/ /\ CanFault /\ faults' = faults + 1
          /\ log' = Append(log, Printed("error_mysql", username))
          /\ mysql_success' = "False"
          /\ UNCHANGED mysql_db
       \/ /\ UserInsertVerdict(mysql_db, username) # "ok"
          /\ log' = Append(log, Printed("error_mysql", username))
          /\ mysql_success' = "False"
          /\ UNCHANGED <<mysql_db, faults>>
       \/ /\ UserInsertVerdict(mysql_db, username) = "ok"
          /\ mysql_db' = [mysql_db EXCEPT !.users = Append(@, username)]
          /\ \/ /\ log' = Append(log, Printed("created_mysql", username))
                /\ mysql_success' = "True"
                /\ UNCHANGED faults
             \/ /\ CanFault /\ faults' = faults + 1
                /\ log' = Append(log, Printed("error_mysql", username))
                /\ mysql_success' = "False"
    /\ pc' = "summary"
    /\ UNCHANGED <<username, email, password, sqlite_success, django_db>>
    /\ UserFrame

\* the if chain at the end of main
Summary(s_ok, m_ok) ==
    IF s_ok /\ m_ok THEN "summary_both"
    ELSE IF s_ok THEN "summary_sqlite_only"
    ELSE IF m_ok THEN "summary_mysql_only"
    ELSE "summary_none"

MainSummary ==
    /\ script = "create_user" /\ pc = "summary"
    /\ log' = Append(log, Printed(Summary(sqlite_success = "True",
                                        mysql_success = "True"), ""))
    /\ pc' = "exited"
    /\ UNCHANGED <<username, email, password, sqlite_success, mysql_success,
                   django_db, mysql_db, faults>>
    /\ UserFrame

UserNext ==
    \/ DjangoSetup
    \/ GetUserInput
    \/ CreateUserInDjango
    \/ CreateUserInMysql
    \/ MainSummary

SpecUsers == UserInit /\ [][UserNext]_vars

-----------------------------------------------------------------------------
(* Vocabulary of the properties *)

Neon == script = "neon"

Issued(op) == { k \in 1..Len(stmts) : stmts[k].op = op }
Logged(ev) == { k \in 1..Len(log) : log[k].ev = ev }
LoggedFor(ev, obj) == { k \in 1..Len(log) : log[k].ev = ev /\ log[k].obj = obj }

RunEnded == pc = "done"
LastResult == outcome[Len(outcome)].result

\* the tables migrate works on: the user tables of the source
UserTables == { t \in SrcTables : InCatalog(src.catalog, t) /\ UserTable(t) }

\* the tables whose iteration of the table loop is over
Processed == { tables[k] : k \in 1..(ti - 1) }

RowSet(tbl) == { tbl.rows[j] : j \in 1..Len(tbl.rows) }

-----------------------------------------------------------------------------
(* C1: migrate commits the target transaction at most once, and only after
   every table was processed and the sequences were reset; until then, and
   after a failure was handled (rollback), the target shows exactly what it
   showed when the run started: no dropped or created table, no inserted
   row, no index of this run. *)
C1_SingleAtomicCommit ==
    Neon =>
      /\ Cardinality(Issued("COMMIT")) <= 1
      /\ (Issued("COMMIT") # {}) =>
            /\ ti > Len(tables) /\ tables = get_sqlite_tables(src)
            /\ \A t \in UserTables :
                  /\ \E k \in Issued("DROP_CREATE") : stmts[k].obj = t
                  /\ LoggedFor("migrated", t) \cup LoggedFor("no_data", t) # {}
            /\ Issued("SELECT_SEQUENCES") # {}
            /\ si > Len(sequences)
            /\ Logged("migration_failed") = {}
      /\ (Issued("COMMIT") = {} /\ ~RunEnded) => pgc = pgAtStart
      /\ (pc = "rolledback" \/ (RunEnded /\ LastResult = "rolledback")) =>
            /\ pgc = pgAtStart
            /\ pgw = pgc
            /\ txn = "none"
            /\ neon_conn # "none" => Cardinality(Issued("ROLLBACK")) = 1

\* a run that replaced a table of the target, copied rows, built an index and
\* then failed
C1_Witness ==
    /\ Neon /\ pc = "rolledback"
    /\ pgAtStart = StaleTarget
    /\ Issued("INSERT") # {} /\ Issued("CREATE_INDEX") # {}
    /\ \E k \in Issued("DROP_CREATE") : stmts[k].obj = "users"

-----------------------------------------------------------------------------
(* C2: after a run of migrate that ended with its commit, every user table T
   of the source exists in the target with as many rows as the source holds
   minus the rows whose insert failed, each of which left one warning
   naming T.  (Stated for the runs in which the environment injected no
   fault.) *)
RowWarnings(t) == Cardinality(LoggedFor("row_error", t))

C2_RowCounts ==
    (Neon /\ RunEnded /\ LastResult = "committed" /\ faults = 0) =>
       \A t \in UserTables :
          /\ pgc.tables[t].exists
          /\ Len(pgc.tables[t].rows) = Len(src.rows[t]) - RowWarnings(t)

-----------------------------------------------------------------------------
(* C3: when the target rejects the insert of a row, the row is logged and
   skipped, every other row of the table is inserted, the remaining tables
   are migrated and the run commits. *)
ServerVerdicts == {"not_null", "duplicate", "too_long", "arity", "no_table"}

\* the rows (table, position) the server rejected for what they hold
Rejected ==
    { <<log[k].obj, log[k].row>> :
        k \in { j \in Logged("row_error") : log[j].why \in ServerVerdicts } }

\* the rows the driver refused to send
NotSent ==
    { <<log[k].obj, log[k].row>> :
        k \in { j \in Logged("row_error") : log[j].why = "adapt" } }

C3_RejectedRowSkipped ==
    (Neon /\ RunEnded /\ run = 1 /\ faults = 0 /\ Rejected # {}) =>
       /\ LastResult = "committed"
       /\ \A t \in UserTables :
             \A j \in 1..Len(src.rows[t]) :
                <<t, j>> \notin (Rejected \cup NotSent) =>
                   DataTuple(src.rows[t][j]) \in RowSet(pgc.tables[t])

-----------------------------------------------------------------------------
(* C4: no value a row transfer sends to the target is the empty string: a
   source value '' is sent as NULL, every other value is sent unchanged at
   its position; so no row of the target holds ''.  Per-row migrator and
   both batched scripts. *)
SentAs(val, sent) ==
    /\ sent # Str("")
    /\ sent = (IF val = Str("") THEN Null ELSE val)

RowSentAs(row, params) ==
    /\ Len(params) = Len(row)
    /\ \A c \in 1..Len(row) : SentAs(row[c], params[c])

C4_EmptyStringsBecomeNull ==
    /\ \A k \in Issued("INSERT") :
          RowSentAs(src.rows[stmts[k].obj][stmts[k].row], stmts[k].params)
    /\ \A k \in Issued("INSERT_MANY") :
          /\ Len(stmts[k].params) = Len(src.rows[stmts[k].obj])
          /\ \A j \in 1..Len(stmts[k].params) :
                RowSentAs(src.rows[stmts[k].obj][j], stmts[k].params[j])
    /\ \A t \in TableU :
          \A row \in RowSet(pgc.tables[t]) \cup RowSet(pgw.tables[t]) :
             \A c \in 1..Len(row) : row[c] # Str("")

\* the scenario of the specification: users (1,'a','') and (2,'b','c@x.com')
C4_Witness ==
    /\ Neon /\ RunEnded /\ LastResult = "committed"
    /\ src.rows["users"] = << <<Num(1), Str("a"), Str("")>>,
                              <<Num(2), Str("b"), Str("c@x.com")>> >>
    /\ pgc.tables["users"].rows = << <<Num(1), Str("a"), Null>>,
                                     <<Num(2), Str("b"), Str("c@x.com")>> >>

-----------------------------------------------------------------------------
(* C5: a second run of migrate on the same source leaves the target as the
   first run left it, whatever the target held before the first run. *)
C5_SecondRunChangesNothing ==
    ( /\ Neon /\ RunEnded /\ run = 2
      /\ \A r \in 1..2 : outcome[r].result = "committed" /\ outcome[r].faults = 0 )
    => pgAfterRun[2] = pgAfterRun[1]

-----------------------------------------------------------------------------
(* C6: a run moves through Idle, Connected, then per table in catalog order
   SchemaCreated, DataCopied, IndexesBuilt, then SequencesReset, then
   Committed; Failed is entered only before Committed and is left only to
   RolledBack; no run both commits and rolls back. *)
Phase ==
    CASE pc = "idle" -> "Idle"
      [] pc = "connected" -> "Connected"
      [] pc \in {"loop", "schema", "sequences"} ->
           IF ti = 1 THEN "Connected" ELSE "IndexesBuilt"
      [] pc \in {"created", "rows"} -> "SchemaCreated"
      [] pc \in {"copied", "indexes"} -> "DataCopied"
      [] pc = "seqreset" -> "SequencesReset"
      [] pc = "committed" -> "Committed"
      [] pc = "failed" -> "Failed"
      [] pc = "rolledback" -> "RolledBack"
      [] OTHER -> IF LastResult = "committed" THEN "Committed" ELSE "RolledBack"

\* the position in the catalog order of the table the phase is about
PhaseTable ==
    CASE Phase \in {"SchemaCreated", "DataCopied"} -> ti
      [] Phase = "IndexesBuilt" -> ti - 1
      [] OTHER -> 0

PhaseStep ==
    \/ Phase' = Phase /\ PhaseTable' = PhaseTable
    \/ Phase = "Idle" /\ Phase' = "Connected"
    \/ Phase = "Connected" /\ Phase' = "SchemaCreated" /\ PhaseTable' = 1
    \/ Phase = "Connected" /\ Phase' = "SequencesReset" /\ Len(tables) = 0
    \/ Phase = "SchemaCreated" /\ Phase' = "DataCopied" /\ PhaseTable' = PhaseTable
    \/ Phase = "DataCopied" /\ Phase' = "IndexesBuilt" /\ PhaseTable' = PhaseTable
    \/ /\ Phase = "IndexesBuilt" /\ Phase' = "SchemaCreated"
       /\ PhaseTable' = PhaseTable + 1
    \/ /\ Phase = "IndexesBuilt" /\ Phase' = "SequencesReset"
       /\ PhaseTable = Len(tables)
    \/ Phase = "SequencesReset" /\ Phase' = "Committed"
    \/ /\ Phase \in {"Idle", "Connected", "SchemaCreated", "DataCopied",
                     "IndexesBuilt", "SequencesReset"}
       /\ Phase' = "Failed"
    \/ Phase = "Failed" /\ Phase' = "RolledBack"
    \/ Phase \in {"Committed", "RolledBack"} /\ Phase' = "Idle" /\ run' = run + 1

C6_PhaseOrder ==
    /\ [](Neon => ~(Logged("completed") # {} /\ Logged("migration_failed") # {}))
    /\ [][Neon => PhaseStep]_vars

\* the second table of a catalog has its indexes built after the first one
\* went through its three phases
C6_Witness ==
    /\ Neon /\ Phase = "IndexesBuilt" /\ PhaseTable = 2 /\ pc = "loop"
    /\ Cardinality(Logged("created_table")) = 2
    /\ Cardinality(Logged("migrated")) = 2

-----------------------------------------------------------------------------
(* C7: after a run that ended with its commit, the sequence of every target
   column with a nextval default stands at or above the maximum of the column
   (1 for an empty table), so the next value it hands out is above every
   value of the column.  (Stated for the runs in which the environment
   injected no fault.) *)
C7_SequencesAdvanced ==
    (Neon /\ RunEnded /\ LastResult = "committed" /\ faults = 0) =>
       \A tc \in SerialColumns(pgc) : seqval[tc] >= CoalesceMax(pgc, tc) + 1

-----------------------------------------------------------------------------
(* C8: create_indexes sends no CREATE INDEX for a source index flagged
   auto-generated (origin other than CREATE INDEX) and exactly one for every
   other index of the table. *)
AutoGenerated(index) == index[4] # "c"

CreateIndexCount(name) ==
    Cardinality({ k \in Issued("CREATE_INDEX") : stmts[k].name = name })

C8_OneStatementPerAuthoredIndex ==
    Neon =>
      \A t \in Processed :
         \A k \in 1..Len(IndexList(t)) :
            CreateIndexCount(IndexList(t)[k][2]) =
               (IF AutoGenerated(IndexList(t)[k]) THEN 0 ELSE 1)

-----------------------------------------------------------------------------
(* C9 as stated: a column on the exemption list accepts NULL in the target
   whatever the source declares, also when it is part of the primary key; any
   other column is NOT NULL in the target exactly when the source declares
   it not-null. *)
JustCreated == Neon /\ pc = "created"

C9_ExemptColumnsNullable ==
    JustCreated =>
       LET tbl == pgw.tables[tables[ti]] IN
       \A k \in 1..Len(schema) :
          IF schema[k].name \in nullable_fields
            THEN AcceptsNull(tbl, k)
            ELSE ~AcceptsNull(tbl, k) <=> (schema[k].notnull # 0)

(* C9 amended: a column that is part of the primary key never accepts NULL
   (PRIMARY KEY implies NOT NULL); of the other columns, one on the exemption
   list accepts NULL whatever the source declares and one not on the list is
   NOT NULL exactly when the source declares it not-null. *)
C9_ExemptNonKeyColumnsNullable ==
    JustCreated =>
       LET tbl == pgw.tables[tables[ti]] IN
       /\ Len(tbl.cols) = Len(schema)
       /\ \A k \in 1..Len(schema) :
             IF schema[k].pk # 0 THEN ~AcceptsNull(tbl, k)
             ELSE IF schema[k].name \in nullable_fields THEN AcceptsNull(tbl, k)
             ELSE ~AcceptsNull(tbl, k) <=> (schema[k].notnull # 0)

\* site was created: hostname (exempt, NOT NULL in the source, key),
\* site_name (exempt, NOT NULL in the source, not a key)
C9_Witness ==
    /\ JustCreated /\ tables[ti] = "site"
    /\ AcceptsNull(pgw.tables["site"], 3)
    /\ ~AcceptsNull(pgw.tables["site"], 1)

-----------------------------------------------------------------------------
(* C10: convert_sqlite_type_to_postgres returns TEXT for every declared type
   CHAR or CHAR(n), in any letter case, and never returns a fixed-length
   character type. *)
CharForms ==
    { n \o l : n \in {"CHAR", "char", "Char", "cHaR"}, l \in TypeLengths }

FixedLengthChar(type) ==
    \/ StartsWith("CHAR", type) /\ ~Contains("VARYING", type)
    \/ StartsWith("NCHAR", type)
    \/ StartsWith("BPCHAR", type)

Returned == script = "types" /\ pc = "returned"

C10_CharBecomesText ==
    Returned =>
       /\ sqlite_type \in CharForms => postgres_type = "TEXT"
       /\ ~FixedLengthChar(postgres_type)

C10_Witness ==
    Returned /\ sqlite_type = "char(10)" /\ postgres_type = "TEXT"

-----------------------------------------------------------------------------
(* C11: convert_sqlite_type_to_postgres returns, for a declared type whose
   name is one of the nine families of the translation table (in any letter
   case, with or without a length), the target type the table gives for that
   family, and TEXT for a declared type that contains none of the table's
   keys. *)
Families == <<
    <<"INTEGER", "INTEGER">>,
    <<"TEXT", "TEXT">>,
    <<"REAL", "REAL">>,
    <<"BLOB", "BYTEA">>,
    <<"NUMERIC", "NUMERIC">>,
    <<"BOOLEAN", "BOOLEAN">>,
    <<"DATE", "DATE">>,
    <<"DATETIME", "TIMESTAMP">>,
    <<"TIME", "TIME">> >>

\* the declared type is the family name n, in some letter case, plus a length
OfFamily(declared, n) ==
    \E name \in TypeNames, l \in TypeLengths :
       Upper(name) = n /\ declared = name \o l

ContainsNoKey(declared) ==
    \A k \in 1..Len(type_mapping) : ~Contains(type_mapping[k][1], Upper(declared))

C11_FamilyMapping ==
    Returned =>
       /\ \A k \in 1..Len(Families) :
             OfFamily(sqlite_type, Families[k][1]) => postgres_type = Families[k][2]
       /\ ContainsNoKey(sqlite_type) => postgres_type = "TEXT"

-----------------------------------------------------------------------------
(* C12: when migrate or verify_migration has returned or raised, every
   connection the process opened is closed, whatever the outcome; and
   wherever a connection is used (a cursor, a statement, commit, rollback) it
   is open. *)
Working ==
    {"connected", "loop", "schema", "created", "rows", "copied", "indexes",
     "sequences", "seqreset", "committed", "v_connected", "v_loop"}

\* migrate or verify_migration is not running
Outside == pc \in {"idle", "done", "verify", "finishing", "exited"}

C12_ConnectionsClosed ==
    Neon =>
      /\ Outside => live = 0 /\ sqlite_conn # "open" /\ neon_conn # "open"
      /\ pc \in Working => sqlite_conn = "open" /\ neon_conn = "open"
      /\ (pc = "failed" /\ neon_conn # "none") => neon_conn = "open"

\* the target could not be reached after the source was opened, and migrate
\* has raised
C12_Witness ==
    /\ Neon /\ pc = "done" /\ LastResult = "rolledback"
    /\ sqlite_conn = "closed" /\ neon_conn = "none"
    /\ stmts = << >>

-----------------------------------------------------------------------------
(* C13: verify_migration starts only after migrate returned from its commit
   and only when the verify flag was given; it works on a pair of connections
   opened for it; it leaves the target as the run left it; and when it is
   over, every user table whose row count in the target differs from the
   source (a table missing from the target differs) has a mismatch report
   naming it.  (Stated for the runs in which the environment injected no
   fault.) *)
Verifying == pc \in {"v_connected", "v_loop", "v_closing"}

VerificationOver ==
    pc \in {"finishing", "exited"} /\ verify_flag = "given"

CountsDiffer(t) ==
    \/ ~pgc.tables[t].exists
    \/ Len(pgc.tables[t].rows) # Len(src.rows[t])

-----------------------------------------------------------------------------
(* C14: when connect_databases of migrate cannot open the source or the
   target, the run fails before any work: migrate goes straight to its
   failure handling, the catalog of the source is never read, no statement
   is sent to the target, and nothing is committed. *)
MigrateConnectFailed ==
    Neon /\ Logged("connection_error") # {} /\ Logged("completed") = {}

C14_NoWorkWithoutConnections ==
    MigrateConnectFailed =>
       /\ pc \in {"failed", "rolledback", "done", "exited"}
       /\ tables = << >> /\ Logged("found_tables") = {}
       /\ stmts = << >>
       /\ pgc = pgAtStart /\ pgw = pgc /\ txn = "none"
       /\ pc \in {"done", "exited"} => LastResult = "rolledback"

\* neither connection could be opened and the failure was handled
C14_Witness ==
    /\ MigrateConnectFailed /\ pc = "rolledback"
    /\ sqlite_conn = "none" /\ neon_conn = "none"
    /\ pgAtStart = StaleTarget

-----------------------------------------------------------------------------
(* C15: a failed index creation or sequence reset is logged and the run goes
   on: it ends with its commit, every user table is in the target with the
   rows that were copied, and every other sequence is reset.  (Stated for the
   runs in which the server refused a statement of reset_sequences or
   create_indexes, no row was rejected and the environment injected no
   fault.) *)
NonFatalFailures == Logged("index_error") \cup Logged("sequence_error")

\* the sequences whose setval the server has no reason to refuse
Resettable ==
    { k \in 1..Len(sequences) : SetvalAccepts(CoalesceMax(pgAtStart, sequences[k])) }

C15_IndexAndSequenceFailuresNonFatal ==
    ( /\ Neon /\ pc = "done" /\ faults = 0
      /\ NonFatalFailures # {} /\ Logged("row_error") = {} )
    =>
      /\ LastResult = "committed"
      /\ \A t \in UserTables :
            /\ pgc.tables[t].exists
            /\ Len(pgc.tables[t].rows) = Len(src.rows[t])
      /\ \A k \in Resettable : LoggedFor("reset_sequence", sequences[k][1]) # {}

-----------------------------------------------------------------------------
(* C16: the process ends with a nonzero exit status exactly when migrate
   raised, that is when the run went through its failure handling and was
   rolled back; when migrate returned from its commit the exit status is 0,
   also when the verification pass failed or reported mismatches.  Until the
   process ends it has no exit status. *)
Exited == Neon /\ pc = "exited"

C16_ExitStatus ==
    Neon =>
      /\ pc # "exited" => exit_status = -1
      /\ pc = "exited" =>
            /\ exit_status \in {0, 1}
            /\ exit_status # 0 <=>
                  (LastResult = "rolledback" /\ Logged("migration_failed") # {})
            /\ exit_status # 0 => pgc = pgAtStart
            /\ Issued("COMMIT") # {} => exit_status = 0

\* a committed run whose verification reported a mismatch
C16_Witness ==
    /\ Exited /\ exit_status = 0
    /\ Logged("count_mismatch") # {}

-----------------------------------------------------------------------------
(* C17: in migrate_data_only, when the batched insert of a table fails, the
   target table is as it was before the batch (none of the batch's rows is
   in it), the error is printed, and the loop goes on: every table of the
   catalog is attempted before the script ends. *)
DataOnly == script = "data_only"

BatchFailed(t) == LoggedFor("table_error", t) # {}

Attempted(t) ==
    LoggedFor("no_data", t) \cup LoggedFor("migrated", t)
       \cup LoggedFor("table_error", t) # {}

C17_FailedBatchAbortsOnlyItsTable ==
    DataOnly =>
      /\ \A k \in 1..Len(tables) :
            BatchFailed(tables[k]) =>
               /\ pgc.tables[tables[k]] = pgAtStart.tables[tables[k]]
               /\ k < ti
               /\ pc \in {"loop", "finished", "done"}
      /\ (Logged("table_error") # {} /\ pc \in {"finished", "done"}) =>
            /\ tables = src.catalog
            /\ \A k \in 1..Len(tables) : Attempted(tables[k])

\* the server took the first row of the first table's batch and refused a
\* later one; a later table was filled
C17_Witness ==
    /\ DataOnly /\ pc = "finished" /\ Len(tables) >= 2 /\ faults = 0
    /\ BatchFailed(tables[1])
    /\ Len(src.rows[tables[1]]) >= 2
    /\ InsertVerdict(pgAtStart, tables[1], MysqlRow(src.rows[tables[1]][1])) = "ok"
    /\ \E k \in 2..Len(tables) :
          /\ LoggedFor("migrated", tables[k]) # {}
          /\ Len(pgc.tables[tables[k]].rows) > Len(pgAtStart.tables[tables[k]].rows)

-----------------------------------------------------------------------------
(* C18: the table create_postgres_table creates has a primary key exactly
   when some column of the source schema is flagged as a key participant;
   the key consists of every flagged column, each once, and of no other
   column. *)
Flagged(sch) == { sch[k].name : k \in { j \in 1..Len(sch) : sch[j].pk # 0 } }

C18_CompositePrimaryKey ==
    JustCreated =>
       LET tbl == pgw.tables[tables[ti]] IN
       /\ { tbl.pk[k] : k \in 1..Len(tbl.pk) } = Flagged(schema)
       /\ Len(tbl.pk) = Cardinality(Flagged(schema))
       /\ Len(tbl.pk) > 0 <=> \E k \in 1..Len(schema) : schema[k].pk # 0

\* three columns, the third flagged as first and the first as second key
\* participant, the second not flagged
C18_Witness ==
    /\ JustCreated /\ Len(schema) = 3
    /\ schema[1].pk = 2 /\ schema[2].pk = 0 /\ schema[3].pk = 1
    /\ pgw.tables["users"].pk = <<"id", "email">>

-----------------------------------------------------------------------------
(* C19: the PostgreSQL migrator works on exactly the source tables whose
   name does not start with 'sqlite_'.  Every statement it sends about a
   source table names such a table, and no table under the prefix changes in
   the target; a run that reached its commit has dropped and created every
   user table, also the empty ones, and sent or logged every row of it; a
   verification that completed has counted every user table. *)
TableStatements == {"DROP_CREATE", "INSERT", "CREATE_INDEX", "COUNT"}

TablesOf(op) == { stmts[k].obj : k \in Issued(op) }

RowHandled(t, j) ==
    \/ \E k \in Issued("INSERT") : stmts[k].obj = t /\ stmts[k].row = j
    \/ <<t, j>> \in NotSent

C19_ExactlyUserTables ==
    Neon =>
      /\ \A k \in 1..Len(stmts) :
            stmts[k].op \in TableStatements => stmts[k].obj \in UserTables
      /\ \A t \in SrcTables :
            ~UserTable(t) =>
               /\ pgc.tables[t] = pgAtStart.tables[t]
               /\ pgw.tables[t] = pgAtStart.tables[t]
      /\ \A k \in 1..Len(tables) : tables[k] \in UserTables
      /\ Issued("COMMIT") # {} =>
            /\ TablesOf("DROP_CREATE") = UserTables
            /\ \A t \in UserTables :
                  \A j \in 1..Len(src.rows[t]) : RowHandled(t, j)
      /\ Logged("verification_completed") # {} => TablesOf("COUNT") = UserTables

\* a committed and verified run on a source holding an internal table and an
\* empty user table
C19_Witness ==
    /\ Neon /\ Logged("verification_completed") # {}
    /\ InCatalog(src.catalog, "sqlite_sequence")
    /\ src.rows["users"] = << >> /\ pgc.tables["users"].exists
    /\ Len(pgc.tables["tags"].rows) > 0
    /\ ~pgc.tables["sqlite_sequence"].exists

-----------------------------------------------------------------------------
(* C20: in simple_migrate a failure while migrating the table at position k
   of the catalog ends the table loop at k: the closing message is never
   printed, no statement is sent about a later table and every later table
   of the target is as it was when the run started, while every earlier
   table that had rows holds them after the rows it held before the run.
   A source table without rows gets no CREATE statement and does not change
   in the target. *)
Simple == script = "simple"

TableFailed(t) == LoggedFor("table_error", t) # {}

StatementsAbout(t) == { k \in 1..Len(stmts) : stmts[k].obj = t }

C20_FailureStopsTheRun ==
    Simple =>
      /\ \A k \in 1..Len(tables) :
            TableFailed(tables[k]) =>
               /\ ti = k /\ pc \in {"failed", "done"}
               /\ Logged("completed") = {}
               /\ \A j \in (k + 1)..Len(tables) :
                     /\ StatementsAbout(tables[j]) = {}
                     /\ pgc.tables[tables[j]] = pgAtStart.tables[tables[j]]
               /\ \A j \in 1..(k - 1) :
                     src.rows[tables[j]] # << >> =>
                        /\ pgc.tables[tables[j]].exists
                        /\ pgc.tables[tables[j]].rows =
                              pgAtStart.tables[tables[j]].rows
                                 \o MysqlRows(src.rows[tables[j]])
      /\ \A t \in SrcTables :
            src.rows[t] = << >> =>
               /\ pgc.tables[t] = pgAtStart.tables[t]
               /\ \A k \in Issued("CREATE_IF_NOT_EXISTS") : stmts[k].obj # t

\* the run failed at the second of three tables: the first is filled, the
\* third has rows in the source and does not exist in the target
C20_Witness ==
    /\ Simple /\ pc = "done" /\ Len(tables) = 3
    /\ TableFailed(tables[2])
    /\ Len(pgc.tables[tables[1]].rows) > Len(pgAtStart.tables[tables[1]].rows)
    /\ src.rows[tables[3]] # << >>
    /\ ~pgc.tables[tables[3]].exists

-----------------------------------------------------------------------------
(* C21: create_user writes to no database when get_user_input rejects what
   was typed (username, email or password empty once stripped, or password
   and confirmation different), and rejects in exactly these cases.
   Otherwise the creation through Django is attempted first and the creation
   in MySQL after it, whatever the first answered.  The summary that main
   prints names exactly the databases in which this run created the user. *)
CreateUser == script = "create_user"

Rejections == {"username_empty", "email_empty", "password_empty", "passwords_differ"}
DjangoOutcomes == {"exists_sqlite", "created_sqlite", "error_django"}
MysqlOutcomes == {"created_mysql", "error_mysql"}
Summaries == {"summary_both", "summary_sqlite_only", "summary_mysql_only",
              "summary_none"}

PrintedAny(evs) == { k \in 1..Len(log) : log[k].ev \in evs }

InputInvalid ==
    \/ Strip(std_in[1]) = ""
    \/ Strip(std_in[2]) = ""
    \/ Strip(std_in[3]) = ""
    \/ Strip(std_in[3]) # Strip(std_in[4])

InputRead ==
    \/ pc \in {"django", "mysql", "summary"}
    \/ pc = "exited" /\ Logged("setup_error") = {}

CreatedInSqlite == django_db # usersAtStart[1]
CreatedInMysql == mysql_db # usersAtStart[2]

SummaryNamesSqlite == PrintedAny({"summary_both", "summary_sqlite_only"}) # {}
SummaryNamesMysql == PrintedAny({"summary_both", "summary_mysql_only"}) # {}

NoWriteOnRejection ==
    CreateUser =>
      /\ InputRead => (PrintedAny(Rejections) # {} <=> InputInvalid)
      /\ PrintedAny(Rejections) # {} =>
            /\ pc = "exited"
            /\ <<django_db, mysql_db>> = usersAtStart
            /\ PrintedAny(DjangoOutcomes \cup MysqlOutcomes \cup Summaries) = {}

SqliteThenMysql ==
    CreateUser =>
      /\ Cardinality(PrintedAny(DjangoOutcomes)) <= 1
      /\ Cardinality(PrintedAny(MysqlOutcomes)) <= 1
      /\ \A m \in PrintedAny(MysqlOutcomes) :
            \E d \in PrintedAny(DjangoOutcomes) : d < m
      /\ \A s \in PrintedAny(Summaries) :
            \E m \in PrintedAny(MysqlOutcomes) : m < s
      /\ (pc = "exited" /\ PrintedAny(DjangoOutcomes) # {}) =>
            PrintedAny(MysqlOutcomes) # {} /\ PrintedAny(Summaries) # {}
      /\ CreatedInMysql => PrintedAny(DjangoOutcomes) # {}

SummaryNamesTheCreations ==
    (CreateUser /\ PrintedAny(Summaries) # {}) =>
      /\ SummaryNamesSqlite <=> CreatedInSqlite
      /\ SummaryNamesMysql <=> CreatedInMysql

C21_CreateUserOutcome ==
    /\ NoWriteOnRejection
    /\ SqliteThenMysql
    /\ SummaryNamesTheCreations

\* the summaries that name MySQL are right, and so is every summary of a run
\* in which commit() did not fail after the INSERT
SummaryExceptAfterFailedCommit ==
    (CreateUser /\ PrintedAny(Summaries) # {}) =>
      /\ SummaryNamesSqlite <=> CreatedInSqlite
      /\ SummaryNamesMysql => CreatedInMysql
      /\ (CreatedInMysql /\ ~SummaryNamesMysql) =>
            faults > 0 /\ LoggedFor("error_mysql", username) # {}

\* the user ended up in exactly one database and the summary says so
OnlyOneDatabase ==
    /\ CreateUser /\ pc = "exited" /\ faults = 0
    /\ CreatedInSqlite /\ ~CreatedInMysql
    /\ Logged("summary_sqlite_only") # {}

====
